---- MODULE Spec2Model ----
(***************************************************************************)
(* IXFR creation in NSD (ixfrcreate.c): the old zone is spooled to a file  *)
(* by ixfr_create_start, and ixfr_create_perform walks the spool and the   *)
(* reloaded in-memory zone together, feeding deletions and additions to an *)
(* ixfr store.                                                             *)
(*                                                                         *)
(* The spool file is a sequence of octets.  Integers are written in the    *)
(* byte order of the host; the model fixes little endian, writer and       *)
(* reader being the same process.                                          *)
(*                                                                         *)
(* A dname is the sequence of its wire octets.  The model writes the       *)
(* labels of a name root first, so that the canonical order of names is    *)
(* the lexicographic order of the sequences and "is a subdomain of" is     *)
(* "has as a prefix".                                                      *)
(*                                                                         *)
(* The module also holds the hash table of hash.c, with the calls that its *)
(* main makes: hash_create, hash_insert, and the iteration with hash_first *)
(* and hash_next.                                                          *)
(***************************************************************************)
EXTENDS Integers, Sequences, FiniteSets, Bags, TLC

\* ------------------------------------------------------------------ bounds
\* Largest number of RRs in a zone of the fault-free specification.
MaxZoneRRs == 2
\* Largest number of RRs in a zone of the specification with faults.
MaxFaultZoneRRs == 1

\* the calls of ixfr_create_free that a caller makes on one context
MaxFreeCalls == 2
\* the sizes of the hash tables, the strings used as keys and the calls of
\* hash_insert on one table
MaxHashSize == 2
MaxKey == 3
MaxInserts == 3
\* the nodes one iteration is given before the caller stops asking
MaxVisits == 4

\* --------------------------------------------------------------- constants
MAXDOMAINLEN == 255
\* fuel value of a stream on which no operation fails
NoFault == 0 - 1

\* ----------------------------------------------------------------- helpers
\* F applied to the value v: names an intermediate result
Bind(v, F(_)) == F(v)

Min(a, b) == IF a < b THEN a ELSE b

Range(s) == {s[i] : i \in 1..Len(s)}

RECURSIVE BagOfSeq(_)
BagOfSeq(s) ==
    IF s = <<>> THEN EmptyBag
    ELSE BagOfSeq(Tail(s)) (+) SetToBag({Head(s)})

\* number of occurrences of x in the sequence s
\* the concatenation of the sequences of a sequence
RECURSIVE Flatten(_)
Flatten(seqs) == IF seqs = <<>> THEN <<>> ELSE Head(seqs) \o Flatten(Tail(seqs))

Occurrences(s, x) == Cardinality({i \in 1..Len(s) : s[i] = x})

\* a uint16_t / uint32_t in memory, as fwrite(&val, sizeof(val), 1, out)
\* puts it in the file
U16Bytes(val) == <<val % 256, (val \div 256) % 256>>
U32Bytes(val) == <<val % 256, (val \div 256) % 256,
                   (val \div 65536) % 256, (val \div 16777216) % 256>>
U16Value(b) == b[1] + 256 * b[2]
U32Value(b) == b[1] + 256 * b[2] + 65536 * b[3] + 16777216 * b[4]

\* --------------------------------------------- the name database interface
\* rdata_atom_is_domain(type, i): type 15 (MX) holds a preference and a
\* domain name, type 1 (A) holds opaque data only.  i counts from 0.
rdata_atom_is_domain(type, i) == type = 15 /\ i = 1

\* dname_make(region, name, 1): the name with its octets in lower case
ToLower(b) == IF b \in 65..90 THEN b + 32 ELSE b
dname_make(name) == [i \in 1..Len(name) |-> ToLower(name[i])]

\* dname_compare(a, b): negative, zero or positive, in canonical order
RECURSIVE dname_compare(_, _)
dname_compare(a, b) ==
    IF a = <<>> /\ b = <<>> THEN 0
    ELSE IF a = <<>> THEN -1
    ELSE IF b = <<>> THEN 1
    ELSE IF Head(a) < Head(b) THEN -1
    ELSE IF Head(a) > Head(b) THEN 1
    ELSE dname_compare(Tail(a), Tail(b))

\* domain_is_subdomain(domain, apex)
domain_is_subdomain(domain, apex) ==
    /\ Len(domain.dname) >= Len(apex.dname)
    /\ SubSeq(domain.dname, 1, Len(apex.dname)) = apex.dname

\* zone_get_current_serial(zone)
zone_get_current_serial(zone) == zone.serial

\* the rrsets of the chain domain->rrsets that belong to the zone
InZone(domain, zone) == SelectSeq(domain.rrsets, LAMBDA s : s.zone = zone.id)

\* domain_find_rrset(domain, zone, type): the rrset, or <<>> for NULL
domain_find_rrset(domain, zone, tp) ==
    LET found == SelectSeq(domain.rrsets,
                     LAMBDA s : s.zone = zone.id /\ s.rrs[1].type = tp)
    IN  IF found = <<>> THEN <<>> ELSE <<found[1]>>

\* rrset_rrtype(rrset)
rrset_rrtype(rrset) == rrset.rrs[1].type

\* ------------------------------------------------------- the zones modelled
\* An rr is [type, klass, ttl, rdatas]; rdatas is the sequence of rdata
\* atoms.  A domain atom is the dname it points to; any other atom is the
\* sequence data[0], data[1], ..., where data[0] is the number of octets
\* that follow.  An rrset is [zone, rrs] with at least one rr and no two rrs
\* of equal rdata; a domain is [dname, rrsets]; a zone is [id, apex, serial,
\* domains], where domains is the walk of the domain table from the apex in
\* canonical order, followed by a name outside the zone.
RR(tp, ttl, rdatas) == [type |-> tp, klass |-> 1, ttl |-> ttl, rdatas |-> rdatas]

A1 == RR(1, 1, << <<1, 4>> >>)
A2 == RR(1, 2, << <<1, 4>> >>)
B1 == RR(1, 1, << <<2, 4, 5>> >>)
X1 == RR(15, 1, << <<1, 7>>, <<1, 2>> >>)

\* the choices for the rrset of type 1 at a name, <<>> for none
ChoicesA == {<<>>, <<A1>>, <<A2>>, <<B1>>, <<A1, B1>>, <<B1, A1>>,
             <<A2, B1>>, <<B1, A2>>}
\* the choices for the rrset of type 15 at a name
ChoicesX == {<<>>, <<X1>>}

OwnerNames == << <<1>>, <<1, 1>>, <<1, 2>> >>

\* the apex carries the delegation of the parent zone, an rrset that is not
\* of the zone
Delegation == [zone |-> "parent", rrs |-> <<X1>>]

Chain(id, i, a, x) ==
    (IF i = 1 THEN <<Delegation>> ELSE <<>>)
    \o (IF a = <<>> THEN <<>> ELSE <<[zone |-> id, rrs |-> a]>>)
    \o (IF x = <<>> THEN <<>> ELSE <<[zone |-> id, rrs |-> x]>>)

\* the name after the zone in the domain table
Outside == [dname |-> <<2>>, rrsets |-> <<[zone |-> "other", rrs |-> <<A1>>]>>]

MakeZone(id, serial, a, x) ==
    [id |-> id, serial |-> serial,
     domains |-> [i \in 1..4 |->
        IF i = 4 THEN Outside
        ELSE [dname |-> OwnerNames[i], rrsets |-> Chain(id, i, a[i], x[i])]]]

ZoneApex(zone) == zone.domains[1]

Contents(n) ==
    {c \in [a : [1..3 -> ChoicesA], x : [1..3 -> ChoicesX]] :
        Len(c.a[1]) + Len(c.a[2]) + Len(c.a[3])
          + Len(c.x[1]) + Len(c.x[2]) + Len(c.x[3]) <= n}

\* the zones with at most n RRs of the zone
Zones(n, serial) == {MakeZone("z", serial, c.a, c.x) : c \in Contents(n)}

\* -------------------------------------------------------------- the writer
\* A FILE* open for writing is [bytes, ok, fuel]: the octets written, whether
\* every write so far succeeded, and the number of writes that succeed
\* before one fails (NoFault: none fails).  A function that returns 0 as
\* soon as a write fails is a function that writes nothing once ok is FALSE.

\* fwrite(ptr, size, 1, out): 1 item, or 0 when size is 0 or on an error
fwrite(out, data) ==
    IF ~out.ok THEN out
    ELSE IF Len(data) = 0 \/ out.fuel = 0 THEN [out EXCEPT !.ok = FALSE]
    ELSE [out EXCEPT !.bytes = @ \o data,
                     !.fuel = IF @ > 0 THEN @ - 1 ELSE @]

spool_u16(out, val) == fwrite(out, U16Bytes(val % 65536))

spool_u32(out, val) == fwrite(out, U32Bytes(val))

spool_dname(out, dname) == fwrite(fwrite(out, U16Bytes(Len(dname) % 65536)), dname)

\* the octets of atom i (from 1) of the rr, as written uncompressed
AtomBytes(rr, i) ==
    IF rdata_atom_is_domain(rr.type, i - 1) THEN rr.rdatas[i]
    ELSE SubSeq(rr.rdatas[i], 2, 1 + rr.rdatas[i][1])

RECURSIVE rr_rdatalen_from(_, _)
rr_rdatalen_from(rr, i) ==
    IF i > Len(rr.rdatas) THEN 0
    ELSE (IF rdata_atom_is_domain(rr.type, i - 1) THEN Len(rr.rdatas[i])
          ELSE rr.rdatas[i][1]) + rr_rdatalen_from(rr, i + 1)

\* rr_rdatalen_uncompressed that counts the length octet of an atom
RECURSIVE rr_rdatalen_from_whole(_, _)
rr_rdatalen_from_whole(rr, i) ==
    IF i > Len(rr.rdatas) THEN 0
    ELSE Len(rr.rdatas[i]) + rr_rdatalen_from_whole(rr, i + 1)

rr_rdatalen_whole(rr) == rr_rdatalen_from_whole(rr, 1)

rr_rdatalen_uncompressed(rr) == rr_rdatalen_from(rr, 1)

RECURSIVE spool_rr_atoms(_, _, _)
spool_rr_atoms(out, rr, i) ==
    IF i > Len(rr.rdatas) THEN out
    ELSE spool_rr_atoms(fwrite(out, AtomBytes(rr, i)), rr, i + 1)

spool_rr_data(out, rr) ==
    spool_rr_atoms(
        spool_u16(spool_u32(out, rr.ttl), rr_rdatalen_uncompressed(rr) % 65536),
        rr, 1)

RECURSIVE spool_rrs(_, _, _)
spool_rrs(out, rrs, i) ==
    IF i > Len(rrs) THEN out
    ELSE spool_rrs(spool_rr_data(out, rrs[i]), rrs, i + 1)

spool_rrset(out, rrset) ==
    IF Len(rrset.rrs) = 0 THEN out
    ELSE spool_rrs(
            spool_u16(spool_u16(spool_u16(out, rrset.rrs[1].type),
                                rrset.rrs[1].klass),
                      Len(rrset.rrs)),
            rrset.rrs, 1)

RECURSIVE spool_rrsets(_, _, _)
spool_rrsets(out, rrsets, zone) ==
    IF rrsets = <<>> THEN out
    ELSE IF Head(rrsets).zone # zone.id THEN spool_rrsets(out, Tail(rrsets), zone)
    ELSE spool_rrsets(spool_rrset(out, Head(rrsets)), Tail(rrsets), zone)

domain_count_rrsets(domain, zone) ==
    Cardinality({i \in 1..Len(domain.rrsets) : domain.rrsets[i].zone = zone.id})

RECURSIVE spool_domains_from(_, _, _)
spool_domains_from(out, zone, i) ==
    IF i > Len(zone.domains)
       \/ ~domain_is_subdomain(zone.domains[i], ZoneApex(zone))
    THEN spool_u16(out, 0)
    ELSE IF domain_count_rrsets(zone.domains[i], zone) = 0
    THEN spool_domains_from(out, zone, i + 1)
    ELSE spool_domains_from(
            spool_rrsets(
                spool_u32(spool_dname(out, zone.domains[i].dname),
                          domain_count_rrsets(zone.domains[i], zone)),
                zone.domains[i].rrsets, zone),
            zone, i + 1)

spool_domains(out, zone) == spool_domains_from(out, zone, 1)

\* the file after spool_zone_to_file, and whether it returned 1
spool_zone_to_file(zone, serial, fuel) ==
    spool_domains(
        spool_u32(spool_dname([bytes |-> <<>>, ok |-> TRUE, fuel |-> fuel],
                              ZoneApex(zone).dname),
                  serial),
        zone)

\* -------------------------------------------------------------- the reader
\* The state of ixfr_create_perform while it runs, st:
\*   bytes, pos  the spool file and the read position of the FILE*
\*   ok          FALSE once an operation failed: every function returns 0
\*               from there on, so nothing more is read or stored
\*   fuel, ops   the number of operations that succeed before one fails
\*               (NoFault: none fails), and the number performed
\*   iter        the spool_dname_iterator
\*   dels, adds  the calls made to ixfr_store_delrr_uncompressed and
\*               ixfr_store_addrr_rdatas that succeeded, in order
\*   uses        which of the spool, the store and the region were used
\*   reads       the calls of spool_dname_iter_read
\*   val, buf, rdlen, dname, dname_len, head, hdr, marked, marktypes
\*               the out parameters and local variables of the functions
Tick(st) == [st EXCEPT !.ops = @ + 1, !.fuel = IF @ > 0 THEN @ - 1 ELSE @]

\* fread(buf, size, 1, spool): 1 item, or 0 when size is 0, at a short read
\* or on an error
fread(st, size) ==
    IF ~st.ok THEN st
    ELSE IF size = 0 THEN [st EXCEPT !.ok = FALSE, !.uses = @ \cup {"spool"}]
    ELSE IF st.fuel = 0
    THEN [Tick(st) EXCEPT !.ok = FALSE, !.uses = @ \cup {"spool"}]
    ELSE IF st.pos + size > Len(st.bytes)
    THEN [Tick(st) EXCEPT !.ok = FALSE, !.pos = Len(st.bytes),
                          !.uses = @ \cup {"spool"}]
    ELSE [Tick(st) EXCEPT !.buf = SubSeq(st.bytes, st.pos + 1, st.pos + size),
                          !.pos = @ + size, !.uses = @ \cup {"spool"}]

read_spool_u16(st) ==
    Bind(fread(st, 2), LAMBDA r :
        IF r.ok THEN [r EXCEPT !.val = U16Value(r.buf)] ELSE r)

read_spool_u32(st) ==
    Bind(fread(st, 4), LAMBDA r :
        IF r.ok THEN [r EXCEPT !.val = U32Value(r.buf)] ELSE r)

\* read_spool_dname(spool, buf, buflen, &dname_len): leaves the name in
\* st.dname and its length in st.dname_len
read_spool_dname(st, buflen) ==
    Bind(read_spool_u16(st), LAMBDA l :
        IF ~l.ok THEN l
        ELSE IF l.val > buflen THEN [l EXCEPT !.ok = FALSE]
        ELSE IF l.val > 0
        THEN Bind(fread(l, l.val), LAMBDA r :
                IF r.ok THEN [r EXCEPT !.dname = r.buf, !.dname_len = l.val]
                ELSE r)
        ELSE [l EXCEPT !.dname_len = l.val])

\* memcmp(a, b, n) # 0
memcmp_differs(a, b, n) == SubSeq(a, 1, n) # SubSeq(b, 1, n)

\* header_check without the comparison of the lengths of the names
header_check_no_len(ixfrcr, dname, dname_len, serial) ==
    /\ ~memcmp_differs(ixfrcr.zone_name, dname, ixfrcr.zone_name_len)
    /\ ~(ixfrcr.old_serial # serial)

\* the check at the end of read_spool_header
header_check(ixfrcr, dname, dname_len, serial) ==
    /\ ~(ixfrcr.zone_name_len # dname_len
         \/ memcmp_differs(ixfrcr.zone_name, dname, ixfrcr.zone_name_len))
    /\ ~(ixfrcr.old_serial # serial)

\* read_spool_header: st.hdr keeps the apex and the serial it read
read_spool_header(st, ixfrcr) ==
    Bind(read_spool_u32(read_spool_dname(st, MAXDOMAINLEN + 1)), LAMBDA s :
        IF ~s.ok THEN s
        ELSE Bind([s EXCEPT !.hdr = [read |-> TRUE, dname |-> s.dname,
                                     dname_len |-> s.dname_len,
                                     serial |-> s.val]],
                  LAMBDA h :
                    IF ~header_check(ixfrcr, h.hdr.dname, h.hdr.dname_len,
                                     h.hdr.serial)
                    THEN [h EXCEPT !.ok = FALSE]
                    ELSE h))

\* the size and the octets of atom i (from 1) of the rr in rdata_match
atom_size(rr, i) ==
    IF rdata_atom_is_domain(rr.type, i - 1) THEN Len(rr.rdatas[i])
    ELSE rr.rdatas[i][1]

atom_data(rr, i) ==
    IF rdata_atom_is_domain(rr.type, i - 1) THEN rr.rdatas[i]
    ELSE SubSeq(rr.rdatas[i], 2, 1 + rr.rdatas[i][1])

\* rdata_match(rr, rdata, rdlen), from atom i (from 1) and offset rdpos
RECURSIVE rdata_match_from(_, _, _, _, _)
rdata_match_from(rr, rdata, rdlen, i, rdpos) ==
    IF i > Len(rr.rdatas) THEN rdpos = rdlen
    ELSE IF rdpos + atom_size(rr, i) > rdlen THEN FALSE
    ELSE IF SubSeq(rdata, rdpos + 1, rdpos + atom_size(rr, i)) # atom_data(rr, i)
    THEN FALSE
    ELSE rdata_match_from(rr, rdata, rdlen, i + 1, rdpos + atom_size(rr, i))

\* rdata_match with >= for > in its test of the length
RECURSIVE rdata_match_from_ge(_, _, _, _, _)
rdata_match_from_ge(rr, rdata, rdlen, i, rdpos) ==
    IF i > Len(rr.rdatas) THEN rdpos = rdlen
    ELSE IF rdpos + atom_size(rr, i) >= rdlen THEN FALSE
    ELSE IF SubSeq(rdata, rdpos + 1, rdpos + atom_size(rr, i)) # atom_data(rr, i)
    THEN FALSE
    ELSE rdata_match_from_ge(rr, rdata, rdlen, i + 1, rdpos + atom_size(rr, i))

rdata_match_ge(rr, rdata, rdlen) == rdata_match_from_ge(rr, rdata, rdlen, 1, 0)

rdata_match(rr, rdata, rdlen) == rdata_match_from(rr, rdata, rdlen, 1, 0)

\* rrset_find_rdata: the index (from 1) of the first rr of the rrset with
\* this ttl and rdata, 0 when there is none
RECURSIVE rrset_find_from(_, _, _, _, _)
rrset_find_from(rrset, ttl, rdata, rdlen, i) ==
    IF i > Len(rrset.rrs) THEN 0
    ELSE IF rrset.rrs[i].ttl # ttl
    THEN rrset_find_from(rrset, ttl, rdata, rdlen, i + 1)
    ELSE IF rdata_match(rrset.rrs[i], rdata, rdlen) THEN i
    ELSE rrset_find_from(rrset, ttl, rdata, rdlen, i + 1)

\* rrset_find_rdata without the comparison of the ttl
RECURSIVE rrset_find_from_any_ttl(_, _, _, _, _)
rrset_find_from_any_ttl(rrset, ttl, rdata, rdlen, i) ==
    IF i > Len(rrset.rrs) THEN 0
    ELSE IF rdata_match(rrset.rrs[i], rdata, rdlen) THEN i
    ELSE rrset_find_from_any_ttl(rrset, ttl, rdata, rdlen, i + 1)

rrset_find_rdata_any_ttl(rrset, ttl, rdata, rdlen) ==
    rrset_find_from_any_ttl(rrset, ttl, rdata, rdlen, 1)

rrset_find_rdata(rrset, ttl, rdata, rdlen) ==
    rrset_find_from(rrset, ttl, rdata, rdlen, 1)

\* ixfr_store_delrr_uncompressed: 0 when the store cannot allocate
ixfr_store_delrr_uncompressed(st, dname, dname_len, tp, kl, ttl, rdata, rdlen) ==
    IF ~st.ok THEN st
    ELSE IF st.fuel = 0
    THEN [Tick(st) EXCEPT !.ok = FALSE, !.uses = @ \cup {"store"}]
    ELSE [Tick(st) EXCEPT !.uses = @ \cup {"store"},
            !.dels = Append(@, <<SubSeq(dname, 1, dname_len), tp, kl, ttl,
                                 SubSeq(rdata, 1, rdlen)>>)]

\* ixfr_store_addrr_rdatas: 0 when the store cannot allocate
ixfr_store_addrr_rdatas(st, dname, tp, kl, ttl, rdatas) ==
    IF ~st.ok THEN st
    ELSE IF st.fuel = 0
    THEN [Tick(st) EXCEPT !.ok = FALSE, !.uses = @ \cup {"store"}]
    ELSE [Tick(st) EXCEPT !.uses = @ \cup {"store"},
            !.adds = Append(@, [dname |-> dname, type |-> tp, klass |-> kl,
                                ttl |-> ttl, rdatas |-> rdatas])]

\* one rr record of the spool: its ttl in st.ttl, the length of its rdata in
\* st.rdlen and the rdata in st.buf
read_rr(st) ==
    Bind(read_spool_u32(st), LAMBDA t :
        Bind(read_spool_u16([t EXCEPT !.ttl = t.val]), LAMBDA l :
            fread([l EXCEPT !.rdlen = l.val], l.val)))

\* is_marked when the search of the marked array never finds the index
is_marked_never(marked, i) == FALSE

\* the search of the marked array in the second loop of process_diff_rrset
is_marked(marked, i) == \E j \in 1..Len(marked) : marked[j] = i

\* diff_spool_rr that deletes the rr of the spool whether it is in the rrset
\* or not
diff_spool_rr_always_del(r, domain, tp, kl, rrset) ==
    IF ~r.ok THEN r
    ELSE Bind(rrset_find_rdata(rrset, r.ttl, r.buf, r.rdlen), LAMBDA index :
            ixfr_store_delrr_uncompressed(
                IF index # 0 THEN [r EXCEPT !.marked = Append(@, index)] ELSE r,
                domain.dname, Len(domain.dname), tp, kl, r.ttl, r.buf, r.rdlen))

\* the body of the first loop of process_diff_rrset, the rr being read
diff_spool_rr(r, domain, tp, kl, rrset) ==
    IF ~r.ok THEN r
    ELSE Bind(rrset_find_rdata(rrset, r.ttl, r.buf, r.rdlen), LAMBDA index :
            IF index # 0 THEN [r EXCEPT !.marked = Append(@, index)]
            ELSE ixfr_store_delrr_uncompressed(r, domain.dname,
                    Len(domain.dname), tp, kl, r.ttl, r.buf, r.rdlen))

\* the first loop of process_diff_rrset, from spool rr i (from 0)
RECURSIVE process_diff_rrset_spool(_, _, _, _, _, _, _)
process_diff_rrset_spool(st, domain, tp, kl, rrcount, rrset, i) ==
    IF ~st.ok \/ i >= rrcount THEN st
    ELSE process_diff_rrset_spool(
            diff_spool_rr(read_rr(st), domain, tp, kl, rrset),
            domain, tp, kl, rrcount, rrset, i + 1)

\* the second loop of process_diff_rrset, from rr i (from 1) of the rrset
RECURSIVE process_diff_rrset_new(_, _, _, _)
process_diff_rrset_new(st, domain, rrset, i) ==
    IF ~st.ok \/ i > Len(rrset.rrs) THEN st
    ELSE IF is_marked(st.marked, i)
    THEN process_diff_rrset_new(st, domain, rrset, i + 1)
    ELSE process_diff_rrset_new(
            ixfr_store_addrr_rdatas(st, domain.dname, rrset.rrs[i].type,
                rrset.rrs[i].klass, rrset.rrs[i].ttl, rrset.rrs[i].rdatas),
            domain, rrset, i + 1)

process_diff_rrset(st, domain, tp, kl, rrcount, rrset) ==
    process_diff_rrset_new(
        process_diff_rrset_spool([st EXCEPT !.marked = <<>>], domain, tp, kl,
                                 rrcount, rrset, 0),
        domain, rrset, 1)

\* the body of the loop of process_spool_delrrset, the rr being read
del_spool_rr(r, dname, dname_len, tp, kl) ==
    ixfr_store_delrr_uncompressed(r, dname, dname_len, tp, kl, r.ttl, r.buf,
                                  r.rdlen)

RECURSIVE process_spool_delrrset_from(_, _, _, _, _, _, _)
process_spool_delrrset_from(st, dname, dname_len, tp, kl, rrcount, i) ==
    IF ~st.ok \/ i >= rrcount THEN st
    ELSE process_spool_delrrset_from(
            del_spool_rr(read_rr(st), dname, dname_len, tp, kl),
            dname, dname_len, tp, kl, rrcount, i + 1)

process_spool_delrrset(st, dname, dname_len, tp, kl, rrcount) ==
    process_spool_delrrset_from(st, dname, dname_len, tp, kl, rrcount, 0)

RECURSIVE process_add_rrset_from(_, _, _, _)
process_add_rrset_from(st, domain, rrset, i) ==
    IF ~st.ok \/ i > Len(rrset.rrs) THEN st
    ELSE process_add_rrset_from(
            ixfr_store_addrr_rdatas(st, domain.dname, rrset.rrs[i].type,
                rrset.rrs[i].klass, rrset.rrs[i].ttl, rrset.rrs[i].rdatas),
            domain, rrset, i + 1)

process_add_rrset(st, domain, rrset) == process_add_rrset_from(st, domain, rrset, 1)

\* the loop of process_marktypes, from rrset s (from 1) of the chain
RECURSIVE process_marktypes_from(_, _, _, _, _)
process_marktypes_from(st, zone, domain, marktypes, s) ==
    IF ~st.ok \/ s > Len(domain.rrsets) THEN st
    ELSE IF domain.rrsets[s].zone # zone.id
    THEN process_marktypes_from(st, zone, domain, marktypes, s + 1)
    ELSE IF \E i \in 1..Len(marktypes) :
                marktypes[i] = rrset_rrtype(domain.rrsets[s])
    THEN process_marktypes_from(st, zone, domain, marktypes, s + 1)
    ELSE process_marktypes_from(process_add_rrset(st, domain, domain.rrsets[s]),
                                zone, domain, marktypes, s + 1)

\* process_marktypes that takes no type for marked
process_marktypes_all(st, zone, domain, marktypes) ==
    process_marktypes_from(st, zone, domain, <<>>, 1)

process_marktypes(st, zone, domain, marktypes) ==
    process_marktypes_from(st, zone, domain, marktypes, 1)

\* the (type, class, rr count) that starts an rrset block of the spool
read_rrset_head(st) ==
    Bind(read_spool_u16(st), LAMBDA t :
        Bind(read_spool_u16([t EXCEPT !.head.tp = t.val]), LAMBDA k :
            Bind(read_spool_u16([k EXCEPT !.head.kl = k.val]), LAMBDA c :
                [c EXCEPT !.head.rrcount = c.val])))

\* the body of the loop of process_diff_domain, the rrset head being read
diff_spool_rrset(h, zone, domain) ==
    IF ~h.ok THEN h
    ELSE Bind(domain_find_rrset(domain, zone, h.head.tp), LAMBDA rrset :
            IF rrset = <<>>
            THEN process_spool_delrrset(h, domain.dname, Len(domain.dname),
                    h.head.tp, h.head.kl, h.head.rrcount)
            ELSE process_diff_rrset(
                    [h EXCEPT !.marktypes = Append(@, h.head.tp)],
                    domain, h.head.tp, h.head.kl, h.head.rrcount, rrset[1]))

\* the loop of process_diff_domain, from spool rrset i (from 0)
RECURSIVE process_diff_domain_from(_, _, _, _, _)
process_diff_domain_from(st, zone, domain, spool_type_count, i) ==
    IF ~st.ok \/ i >= spool_type_count THEN st
    ELSE process_diff_domain_from(
            diff_spool_rrset(read_rrset_head(st), zone, domain),
            zone, domain, spool_type_count, i + 1)

process_diff_domain(st, zone, domain) ==
    Bind(read_spool_u32([st EXCEPT !.marktypes = <<>>]), LAMBDA c :
        Bind(process_diff_domain_from(c, zone, domain, c.val, 0), LAMBDA d :
            process_marktypes(d, zone, domain, d.marktypes)))

\* the loop of process_domain_add_RRs, from rrset s (from 1) of the chain
RECURSIVE process_domain_add_RRs_from(_, _, _, _)
process_domain_add_RRs_from(st, zone, domain, s) ==
    IF ~st.ok \/ s > Len(domain.rrsets) THEN st
    ELSE IF domain.rrsets[s].zone # zone.id
    THEN process_domain_add_RRs_from(st, zone, domain, s + 1)
    ELSE process_domain_add_RRs_from(
            process_add_rrset(st, domain, domain.rrsets[s]), zone, domain, s + 1)

process_domain_add_RRs(st, zone, domain) ==
    process_domain_add_RRs_from(st, zone, domain, 1)

\* the body of the loop of process_domain_del_RRs, the rrset head being read
del_spool_rrset(h, dname, dname_len) ==
    IF ~h.ok THEN h
    ELSE process_spool_delrrset(h, dname, dname_len, h.head.tp, h.head.kl,
                                h.head.rrcount)

RECURSIVE process_domain_del_RRs_from(_, _, _, _, _)
process_domain_del_RRs_from(st, dname, dname_len, spool_type_count, i) ==
    IF ~st.ok \/ i >= spool_type_count THEN st
    ELSE process_domain_del_RRs_from(
            del_spool_rrset(read_rrset_head(st), dname, dname_len),
            dname, dname_len, spool_type_count, i + 1)

process_domain_del_RRs(st, dname, dname_len) ==
    Bind(read_spool_u32(st), LAMBDA c :
        process_domain_del_RRs_from(c, dname, dname_len, c.val, 0))

\* ------------------------------------------------- the spool dname iterator
\* spool_dname_iter_init: memset to zero
spool_dname_iter_init ==
    [dname |-> <<>>, dname_len |-> 0, read_first |-> FALSE, eof |-> FALSE,
     is_processed |-> FALSE]

\* spool_dname_iter_read: the next name of the spool into the iterator;
\* st.reads keeps, for every call, the position of the file and the flags
\* of the iterator at the call
spool_dname_iter_read(st) ==
    Bind(read_spool_dname([st EXCEPT !.dname = st.iter.dname,
                                     !.dname_len = st.iter.dname_len,
                                     !.reads = Append(@,
                                        [pos |-> st.pos,
                                         read_first |-> st.iter.read_first,
                                         is_processed |-> st.iter.is_processed,
                                         eof |-> st.iter.eof])],
                          MAXDOMAINLEN + 1),
         LAMBDA r : [r EXCEPT !.iter.dname = r.dname,
                              !.iter.dname_len = r.dname_len])

\* the first if of spool_dname_iter_next: read the first name
iter_next_first(st) ==
    IF st.iter.read_first THEN st
    ELSE Bind(spool_dname_iter_read(st), LAMBDA r :
            IF ~r.ok THEN r
            ELSE [r EXCEPT !.iter.eof = (r.iter.dname_len = 0) \/ @,
                           !.iter.read_first = TRUE,
                           !.iter.is_processed = FALSE])

\* the rest of spool_dname_iter_next without its test of is_processed
iter_next_rest_always(f) ==
    IF ~f.ok THEN f
    ELSE Bind(spool_dname_iter_read(f), LAMBDA r :
            IF ~r.ok THEN r
            ELSE [r EXCEPT !.iter.eof = (r.iter.dname_len = 0) \/ @,
                           !.iter.is_processed = FALSE])

\* the rest of spool_dname_iter_next
iter_next_rest(f) ==
    IF ~f.ok THEN f
    ELSE IF ~f.iter.is_processed THEN f
    ELSE Bind(spool_dname_iter_read(f), LAMBDA r :
            IF ~r.ok THEN r
            ELSE [r EXCEPT !.iter.eof = (r.iter.dname_len = 0) \/ @,
                           !.iter.is_processed = FALSE])

spool_dname_iter_next(st) ==
    IF ~st.ok \/ st.iter.eof THEN st
    ELSE iter_next_rest(iter_next_first(st))

\* ---------------------------------------------------------------- the walk
\* the end of a turn of the loop of a deletion: the name is processed
mark_processed(d) == IF ~d.ok THEN d ELSE [d EXCEPT !.iter.is_processed = TRUE]

\* the loop of process_spool_before_domain
RECURSIVE process_spool_before_domain(_, _)
process_spool_before_domain(st, domain) ==
    IF ~st.ok \/ st.iter.eof THEN st
    ELSE Bind(spool_dname_iter_next(st), LAMBDA n :
            IF ~n.ok \/ n.iter.eof THEN n
            ELSE IF dname_compare(dname_make(n.iter.dname), domain.dname) < 0
            THEN process_spool_before_domain(
                    mark_processed(
                        process_domain_del_RRs(
                            [n EXCEPT !.uses = @ \cup {"region"}],
                            n.iter.dname, n.iter.dname_len)),
                    domain)
            ELSE [n EXCEPT !.uses = @ \cup {"region"}])

\* the test of process_spool_for_domain that the iterator is at the domain
at_domain(iter, domain) ==
    ~(iter.dname_len # Len(domain.dname)
      \/ memcmp_differs(iter.dname, domain.dname, iter.dname_len))

process_spool_for_domain(st, zone, domain) ==
    Bind(process_spool_before_domain(st, domain), LAMBDA b :
        IF ~b.ok THEN b
        ELSE IF b.iter.eof THEN b
        ELSE IF ~at_domain(b.iter, domain)
        THEN process_domain_add_RRs(b, zone, domain)
        ELSE mark_processed(process_diff_domain(b, zone, domain)))

\* process_spool_remaining with an if for its while: one name only
process_spool_remaining_once(st) ==
    IF ~st.ok \/ st.iter.eof THEN st
    ELSE Bind(spool_dname_iter_next(st), LAMBDA n :
            IF ~n.ok \/ n.iter.eof THEN n
            ELSE mark_processed(
                    process_domain_del_RRs(n, n.iter.dname, n.iter.dname_len)))

RECURSIVE process_spool_remaining(_)
process_spool_remaining(st) ==
    IF ~st.ok \/ st.iter.eof THEN st
    ELSE Bind(spool_dname_iter_next(st), LAMBDA n :
            IF ~n.ok \/ n.iter.eof THEN n
            ELSE process_spool_remaining(
                    mark_processed(
                        process_domain_del_RRs(n, n.iter.dname,
                                               n.iter.dname_len))))

\* ------------------------------------------------------------------ hash.c
\* A key is [p, s]: the pointer given to hash_insert and the string of one
\* character it points to; data is a pointer, 0 for null.  A bucket is the
\* sequence of the nodes table[i], table[i].next, table[i].next->next, ...;
\* a pointer to a node is <<i, k>>, the k-th node of bucket i (i from 0 as in
\* the code, k from 1), and <<>> is the null pointer.  The hash_t is [size,
\* table, count, collisions, i, node], i and node being _i and _node.
NullKey == [p |-> 0, s |-> 0]

\* no hash table
NoHash == [size |-> 0, table |-> <<>>, count |-> 0, collisions |-> 0,
           i |-> 0, node |-> <<>>]

hnode(key, data) == [key |-> key, data |-> data]

\* the cmpf and the hashf of main: strcmp, and the hash of a string of one
\* character
cmpf(a, b) == IF a.s = b.s THEN 0 ELSE 1

hashf(key) == 0 * 31 + key.s

\* hash_create(mallocf, cmpf, hashf, size); m: mallocf returns memory
hash_create(size, m) ==
    IF size = 0 THEN NoHash
    ELSE IF ~m THEN NoHash
    ELSE [size |-> size, table |-> [b \in 1..size |-> <<hnode(NullKey, 0)>>],
          count |-> 0, collisions |-> 0, i |-> 0, node |-> <<>>]

\* BucketOf without the hash of the key: the first bucket for every key
BucketOf_first(h, key) == 1

\* the index in table (from 1) of the bucket of the key
BucketOf(h, key) == (hashf(key) % h.size) + 1

\* the while loop of hash_insert, at node j of the bucket: the bucket after
\* it, the node it ends at, and whether it returned null from inside
RECURSIVE insert_walk(_, _, _, _, _)
insert_walk(bucket, j, key, data, overwrite) ==
    IF ~(j < Len(bucket)) THEN [bucket |-> bucket, j |-> j, returned |-> FALSE]
    ELSE IF cmpf(key, bucket[j].key) = 0
    THEN IF overwrite
         THEN insert_walk([bucket EXCEPT ![j + 1] = hnode(key, data)], j + 1,
                          key, data, overwrite)
         ELSE [bucket |-> bucket, j |-> j, returned |-> TRUE]
    ELSE insert_walk(bucket, j + 1, key, data, overwrite)

\* the else branch of hash_insert, after the loop
insert_append(h, b, w, key, data, m) ==
    IF w.returned
    THEN [hash |-> [h EXCEPT !.table[b] = w.bucket], ret |-> <<>>,
          nomem |-> FALSE]
    ELSE IF ~m
    THEN [hash |-> [h EXCEPT !.table[b] = w.bucket], ret |-> <<>>,
          nomem |-> TRUE]
    ELSE [hash |-> [h EXCEPT !.table[b] = Append(w.bucket, hnode(key, data)),
                             !.count = @ + 1, !.collisions = @ + 1],
          ret |-> <<b - 1, w.j>>, nomem |-> FALSE]

\* hash_insert(hash, key, data, overwrite); m: mallocf returns memory.  The
\* hash_t after the call, the pointer returned and whether mallocf failed.
hash_insert(h, key, data, overwrite, m) ==
    IF h.table[BucketOf(h, key)][1].key = NullKey
    THEN [hash |-> [h EXCEPT !.table[BucketOf(h, key)][1] = hnode(key, data),
                             !.count = @ + 1],
          ret |-> <<BucketOf(h, key) - 1, 1>>, nomem |-> FALSE]
    ELSE insert_append(h, BucketOf(h, key),
            insert_walk(h.table[BucketOf(h, key)], 1, key, data, overwrite),
            key, data, m)

\* the loop of hash_search, at node j of the bucket
RECURSIVE search_walk(_, _, _)
search_walk(bucket, j, key) ==
    IF j > Len(bucket) THEN 0
    ELSE IF bucket[j].key = NullKey THEN 0
    ELSE IF cmpf(key, bucket[j].key) = 0 THEN bucket[j].data
    ELSE search_walk(bucket, j + 1, key)

\* hash_search that looks at the node of the table only
hash_search_head_only(h, key) ==
    IF h.table[BucketOf(h, key)][1].key = NullKey THEN 0
    ELSE IF cmpf(key, h.table[BucketOf(h, key)][1].key) = 0
    THEN h.table[BucketOf(h, key)][1].data
    ELSE 0

hash_search(h, key) == search_walk(h.table[BucketOf(h, key)], 1, key)

\* the loop of hash_first, at bucket i
RECURSIVE first_scan(_, _)
first_scan(h, i) ==
    IF ~(i < h.size) THEN [h EXCEPT !.i = i, !.node = <<>>]
    ELSE IF h.table[i + 1][1].key # NullKey
    THEN [h EXCEPT !.i = i, !.node = <<i, 1>>]
    ELSE first_scan(h, i + 1)

\* hash_first that goes on from where the cursor is
hash_first_from_cursor(h) == first_scan(h, h.i)

\* hash_first(hash): the hash_t after the call; it returns _node
hash_first(h) == first_scan(h, 0)

\* the for(;;) of hash_next, at bucket i
RECURSIVE next_scan(_, _)
next_scan(h, i) ==
    IF i >= h.size THEN [hash |-> [h EXCEPT !.i = i], ret |-> <<>>]
    ELSE IF h.table[i + 1][1].key # NullKey
    THEN [hash |-> [h EXCEPT !.i = i, !.node = <<i, 1>>], ret |-> <<i, 1>>]
    ELSE next_scan(h, i + 1)

\* what hash_destroy frees of a node: its key and its data
destroy_node(n, freekeys, freedata) ==
    (IF n.key # NullKey /\ freekeys THEN << <<"key", n.key.p, 0>> >> ELSE <<>>)
    \o (IF n.data # 0 /\ freedata THEN << <<"data", n.data, 0>> >> ELSE <<>>)

\* the turn of the for loop of hash_destroy for bucket b (from 1): the chain
\* nodes from the first, each with its link, then the node of the table
destroy_bucket(h, b, freekeys, freedata) ==
    Flatten([j \in 1..(Len(h.table[b]) - 1) |->
                destroy_node(h.table[b][j + 1], freekeys, freedata)
                \o << <<"link", b - 1, j + 1>> >>])
    \o destroy_node(h.table[b][1], freekeys, freedata)

\* hash_destroy(hash, freekeys, freedata): the calls of free it makes, in
\* order, <<"key", p, 0>> for the key pointer p, <<"data", p, 0>> for the
\* data pointer p, <<"link", i, k>> for the k-th node of bucket i and
\* <<"hash", 0, 0>> for the hash_t with its table
hash_destroy(h, freekeys, freedata) ==
    Flatten([b \in 1..h.size |-> destroy_bucket(h, b, freekeys, freedata)])
    \o << <<"hash", 0, 0>> >>

\* hash_next that goes to the next bucket without a look at _node->next
hash_next_skip_chain(h) == next_scan(h, h.i + 1)

\* hash_next(hash), _node not null: the hash_t after the call and the
\* pointer returned
hash_next(h) ==
    IF h.node[2] < Len(h.table[h.node[1] + 1])
    THEN [hash |-> [h EXCEPT !.node = <<h.node[1], h.node[2] + 1>>],
          ret |-> <<h.node[1], h.node[2] + 1>>]
    ELSE next_scan(h, h.i + 1)

\* --------------------------------------------------------------- the state
VARIABLES
    zone,       \* the in-memory zone
    faulty,     \* whether file and store operations can fail in this run
    ixfrcr,     \* the struct ixfr_create, <<>> before ixfr_create_start
    file,       \* the octets of the spool file
    spooled,    \* the zone the spool file was written from, <<>> for none
    pc,         \* "idle", "started", "walk" (in the loop of
                \* ixfr_create_walk_zone) or "done" (perform has returned)
    domain_i,   \* the index in zone.domains of the domain of the walk
    spool_pos,  \* the read position of the FILE* spool
    iter,       \* the spool_dname_iterator of the walk
    hdr,        \* the apex and serial read by read_spool_header
    dels,       \* the RRs given to ixfr_store_delrr_uncompressed
    adds,       \* the RRs given to ixfr_store_addrr_rdatas
    trace,      \* the resources acquired, used and released, in order
    failed,     \* whether an operation of perform failed
    result,     \* the value returned by ixfr_create_perform, -1 before
    name_reads, \* the calls of spool_dname_iter_read made by the walk
    heap,       \* the blocks and the FILE* of ixfr_create_start
    hash,       \* the hash_t of hash.c, NoHash before hash_create
    hcalls,     \* the calls of hash_insert made, with what they returned
    hwalk,      \* the iteration with hash_first and hash_next under way
    hwalk2,     \* a second iteration over the same table
    hfreed      \* the pointers that hash_destroy gave to free, in order

hvars == <<hash, hcalls, hwalk, hwalk2, hfreed>>

ivars == <<zone, faulty, ixfrcr, file, spooled, pc, domain_i, spool_pos, iter,
           hdr, dels, adds, trace, failed, result, name_reads, heap>>

vars == <<ivars, hvars>>

\* no block allocated, no file open, no call of ixfr_create_free made
NoHeap ==
    [ixfrcr |-> "none", zone_name |-> "none", file_name |-> "none",
     out |-> "none", free_calls |-> 0, wild |-> FALSE]

\* an iteration: whether hash_next can be called, the nodes returned,
\* whether null was returned, and whether an insert (mutated) or a call of
\* the other iteration (interrupted) came in between
NoWalk == [active |-> FALSE, visited |-> <<>>, done |-> FALSE,
           mutated |-> FALSE, interrupted |-> FALSE]

NoHdr == [read |-> FALSE, dname |-> <<>>, dname_len |-> 0, serial |-> 0]

\* the zones with an rrset of the zone that holds no rr, at the end of the
\* chain of one of its domains
ZonesWithEmptyRRset(n, serial) ==
    {[z EXCEPT !.domains[i].rrsets = Append(@, [zone |-> z.id, rrs |-> <<>>])] :
        z \in Zones(n, serial), i \in 1..3}

InitZones(zs, f) ==
    /\ zone \in zs
    /\ faulty = f
    /\ ixfrcr = <<>>
    /\ file = <<>>
    /\ spooled = <<>>
    /\ pc = "idle"
    /\ domain_i = 0
    /\ spool_pos = 0
    /\ iter = spool_dname_iter_init
    /\ hdr = NoHdr
    /\ dels = <<>>
    /\ adds = <<>>
    /\ trace = <<>>
    /\ failed = FALSE
    /\ result = -1
    /\ name_reads = <<>>
    /\ heap = NoHeap
    /\ hash = NoHash
    /\ hcalls = <<>>
    /\ hwalk = NoWalk
    /\ hwalk2 = NoWalk
    /\ hfreed = <<>>

InitWith(n, f) == InitZones(Zones(n, 1), f)

Init == InitWith(MaxZoneRRs, FALSE)

InitF == InitWith(MaxFaultZoneRRs, TRUE)

InitH == InitZones(Zones(0, 1), FALSE)

InitM ==
    InitZones(Zones(MaxFaultZoneRRs, 1) \cup ZonesWithEmptyRRset(MaxFaultZoneRRs, 1),
              TRUE)

\* the state of perform at the start of a step, f operations from a fault
St(f) ==
    [bytes |-> file, pos |-> spool_pos, ok |-> TRUE, fuel |-> f, ops |-> 0,
     iter |-> iter, dels |-> dels, adds |-> adds, uses |-> {},
     reads |-> name_reads,
     val |-> 0, buf |-> <<>>, ttl |-> 0, rdlen |-> 0, dname |-> <<>>,
     dname_len |-> 0, marked |-> <<>>, marktypes |-> <<>>, hdr |-> hdr,
     head |-> [tp |-> 0, kl |-> 0, rrcount |-> 0]]

\* the faults a step of n operations can meet
FaultChoices(n) == IF faulty THEN (0..(n - 1)) \cup {NoFault} ELSE {NoFault}

UseEvents(uses) ==
    (IF "spool" \in uses THEN <<"use_spool">> ELSE <<>>)
    \o (IF "region" \in uses THEN <<"use_region">> ELSE <<>>)
    \o (IF "store" \in uses THEN <<"use_store">> ELSE <<>>)

\* free(ptr) on a block of the heap: nothing for a null pointer
free(block) ==
    CASE block = "none" -> "none"
      [] block = "live" -> "freed"
      [] OTHER -> "freed_twice"

\* ixfr_create_free(ixfrcr) on the heap h; null: the pointer is null.  When
\* the context was freed before, the function reads file_name and zone_name
\* from freed memory: it gets the pointers that were there (stale) and frees
\* them again, or anything else (wild).
ixfr_create_free(h, null, stale) ==
    IF null THEN h
    ELSE IF h.ixfrcr = "live" \/ stale
    THEN [h EXCEPT !.file_name = free(@), !.zone_name = free(@),
                   !.ixfrcr = free(@)]
    ELSE [h EXCEPT !.wild = TRUE]

\* the number of calls of fwrite of spool_zone_to_file when none fails
SpoolWrites(z) ==
    Bind(Len(spool_zone_to_file(z, zone_get_current_serial(z), NoFault).bytes),
         LAMBDA n : n - spool_zone_to_file(z, zone_get_current_serial(z), n).fuel)

\* the operation of ixfr_create_start that fails, if any
StartFaults ==
    IF ~faulty THEN {[op |-> "none", n |-> 0]}
    ELSE {[op |-> o, n |-> 0] : o \in {"none", "calloc", "malloc", "strdup", "fopen"}}
         \cup {[op |-> "fwrite", n |-> k] : k \in 0..(SpoolWrites(zone) - 1)}

\* the context that ixfr_create_start fills in
StartContext ==
    [zone_name_len |-> Len(ZoneApex(zone).dname),
     zone_name |-> ZoneApex(zone).dname,
     old_serial |-> zone_get_current_serial(zone),
     new_serial |-> 0]

\* ixfr_create_start(zone, zfile) with the operation f failing: the heap, the
\* file and the pointer returned (<<>> for null)
start_returns(f) ==
    IF f.op = "calloc"
    THEN [heap |-> heap, file |-> file, ret |-> <<>>]
    ELSE IF f.op = "malloc"
    THEN [heap |-> [heap EXCEPT !.ixfrcr = free("live")], file |-> file,
          ret |-> <<>>]
    ELSE IF f.op = "strdup"
    THEN [heap |-> ixfr_create_free(
                      [heap EXCEPT !.ixfrcr = "live", !.zone_name = "live"],
                      FALSE, FALSE),
          file |-> file, ret |-> <<>>]
    ELSE IF f.op = "fopen"
    THEN [heap |-> ixfr_create_free(
                      [heap EXCEPT !.ixfrcr = "live", !.zone_name = "live",
                                   !.file_name = "live"], FALSE, FALSE),
          file |-> file, ret |-> <<>>]
    ELSE Bind(spool_zone_to_file(zone, zone_get_current_serial(zone),
                                 IF f.op = "fwrite" THEN f.n ELSE NoFault),
              LAMBDA out :
                IF ~out.ok
                THEN [heap |-> ixfr_create_free(
                                  [heap EXCEPT !.ixfrcr = "live",
                                               !.zone_name = "live",
                                               !.file_name = "live",
                                               !.out = "open"], FALSE, FALSE),
                      file |-> out.bytes, ret |-> <<>>]
                ELSE [heap |-> [heap EXCEPT !.ixfrcr = "live",
                                            !.zone_name = "live",
                                            !.file_name = "live",
                                            !.out = "closed"],
                      file |-> out.bytes, ret |-> StartContext])

\* ixfr_create_start(zone, zfile)
ixfr_create_start ==
    /\ pc = "idle"
    /\ \E f \in StartFaults : \E r \in {start_returns(f)} :
          /\ heap' = r.heap
          /\ file' = r.file
          /\ ixfrcr' = r.ret
          /\ IF f.op = "none"
             THEN spooled' = zone /\ pc' = "started"
             ELSE spooled' = spooled /\ pc' = "null"
    /\ UNCHANGED <<zone, faulty, domain_i, spool_pos, iter, hdr, dels, adds,
                   trace, failed, result, name_reads, hvars>>

\* the caller gives the pointer that ixfr_create_start returned to
\* ixfr_create_free, before perform or after it
call_ixfr_create_free ==
    /\ pc \in {"null", "started", "done"}
    /\ heap.free_calls < MaxFreeCalls
    /\ \E stale \in BOOLEAN :
          heap' = [ixfr_create_free(heap, pc = "null", stale)
                      EXCEPT !.free_calls = @ + 1]
    /\ UNCHANGED <<zone, faulty, ixfrcr, file, spooled, pc, domain_i, spool_pos,
                   iter, hdr, dels, adds, trace, failed, result, name_reads,
                   hvars>>

\* the zone is reloaded, to a new serial, between start and perform
Reload ==
    /\ pc = "started"
    /\ zone.serial = ixfrcr.old_serial
    /\ zone' \in Zones(IF faulty THEN MaxFaultZoneRRs ELSE MaxZoneRRs,
                       zone.serial + 1)
    /\ UNCHANGED <<faulty, ixfrcr, file, spooled, pc, domain_i, spool_pos,
                   iter, hdr, dels, adds, trace, failed, result, name_reads,
                   heap, hvars>>

\* zones that other calls of ixfr_create_start can spool to the same file
\* name: a zone below the apex and a zone beside it
OtherZones ==
    {[id |-> "o1", serial |-> 1,
      domains |-> <<[dname |-> <<1, 1>>,
                     rrsets |-> <<[zone |-> "o1", rrs |-> <<A1>>]>>]>>],
     [id |-> "o2", serial |-> 1,
      domains |-> <<[dname |-> <<2>>,
                     rrsets |-> <<[zone |-> "o2", rrs |-> <<A1>>]>>]>>]}

\* another ixfr_create_start with the same zfile in the same process
\* overwrites the spool file of this context
Restart ==
    /\ pc = "started"
    /\ \E z \in {zone} \cup OtherZones :
          /\ z # spooled
          /\ file' = spool_zone_to_file(z, zone_get_current_serial(z),
                                        NoFault).bytes
          /\ spooled' = z
    /\ UNCHANGED <<zone, faulty, ixfrcr, pc, domain_i, spool_pos, iter, hdr,
                   dels, adds, trace, failed, result, name_reads, heap, hvars>>

\* perform_end that returns 1 after a failed walk as well
perform_end_returns_1(walk_ok) ==
    IF ~walk_ok
    THEN [events |-> <<"fclose", "ixfr_store_free">>, result |-> 1]
    ELSE [events |-> <<"ixfr_store_free", "fclose">>, result |-> 1]

\* the end of ixfr_create_perform after ixfr_create_walk_zone returned
perform_end(walk_ok) ==
    IF ~walk_ok
    THEN [events |-> <<"fclose", "ixfr_store_free">>, result |-> 0]
    ELSE [events |-> <<"ixfr_store_free", "fclose">>, result |-> 1]

\* walk_end that keeps the region when a step of the walk failed
walk_end_leak(ok) == IF ~ok THEN <<>> ELSE <<"region_destroy">>

\* what ixfr_create_walk_zone does when a step of the walk failed, and when
\* none did
walk_end(ok) == IF ~ok THEN <<"region_destroy">> ELSE <<"region_destroy">>

\* what ixfr_create_perform does when read_spool_header failed
header_fail == [events |-> <<"fclose">>, result |-> 0]

\* ixfr_create_perform up to the loop of ixfr_create_walk_zone; the fopen
\* is its first operation
perform_open ==
    /\ pc = "started"
    /\ \E f \in FaultChoices(4) :
          IF f = 0
          THEN /\ pc' = "done"
               /\ result' = 0
               /\ failed' = TRUE
               /\ UNCHANGED <<ixfrcr, domain_i, spool_pos, iter, hdr, trace>>
          ELSE \E h \in {read_spool_header(St(IF f > 0 THEN f - 1 ELSE f),
                                           ixfrcr)} :
                 /\ hdr' = h.hdr
                 /\ spool_pos' = h.pos
                 /\ IF ~h.ok
                    THEN /\ trace' = <<"fopen">> \o UseEvents(h.uses)
                                        \o header_fail.events
                         /\ result' = header_fail.result
                         /\ failed' = TRUE
                         /\ pc' = "done"
                         /\ UNCHANGED <<ixfrcr, domain_i, iter>>
                    ELSE /\ ixfrcr' = [ixfrcr EXCEPT !.new_serial =
                                          zone_get_current_serial(zone)]
                         /\ iter' = spool_dname_iter_init
                         /\ trace' = <<"fopen">> \o UseEvents(h.uses)
                              \o <<"ixfr_store_start", "region_create">>
                         /\ domain_i' = 1
                         /\ pc' = "walk"
                         /\ UNCHANGED <<failed, result>>
    /\ UNCHANGED <<zone, faulty, file, spooled, dels, adds, name_reads, heap,
                   hvars>>

\* whether the loop of ixfr_create_walk_zone has a domain to look at
walk_more ==
    /\ domain_i <= Len(zone.domains)
    /\ domain_is_subdomain(zone.domains[domain_i], ZoneApex(zone))

\* the number of operations of a step that ends in st
OpsOf(st) == st.ops

\* one turn of the loop of ixfr_create_walk_zone
walk_domain ==
    /\ pc = "walk"
    /\ walk_more
    /\ IF domain_count_rrsets(zone.domains[domain_i], zone) = 0
       THEN /\ domain_i' = domain_i + 1
            /\ UNCHANGED <<pc, spool_pos, iter, dels, adds, trace, failed,
                           result, name_reads>>
       ELSE \E f \in IF faulty
                     THEN FaultChoices(OpsOf(process_spool_for_domain(
                              St(NoFault), zone, zone.domains[domain_i])))
                     ELSE {NoFault} :
            \E s \in {process_spool_for_domain(St(f), zone,
                                               zone.domains[domain_i])} :
               /\ spool_pos' = s.pos
               /\ iter' = s.iter
               /\ name_reads' = s.reads
               /\ dels' = s.dels
               /\ adds' = s.adds
               /\ IF ~s.ok
                  THEN /\ trace' = trace \o UseEvents(s.uses)
                              \o walk_end(FALSE) \o perform_end(FALSE).events
                       /\ result' = perform_end(FALSE).result
                       /\ failed' = TRUE
                       /\ pc' = "done"
                       /\ UNCHANGED domain_i
                  ELSE /\ trace' = trace \o UseEvents(s.uses)
                              \o <<"region_free_all">>
                       /\ domain_i' = domain_i + 1
                       /\ UNCHANGED <<pc, failed, result>>
    /\ UNCHANGED <<zone, faulty, ixfrcr, file, spooled, hdr, heap, hvars>>

\* ixfr_create_walk_zone after its loop, and the return of perform
walk_remaining ==
    /\ pc = "walk"
    /\ ~walk_more
    /\ \E f \in IF faulty
                THEN FaultChoices(OpsOf(process_spool_remaining(St(NoFault))))
                ELSE {NoFault} :
       \E s \in {process_spool_remaining(St(f))} :
          /\ spool_pos' = s.pos
          /\ iter' = s.iter
          /\ name_reads' = s.reads
          /\ dels' = s.dels
          /\ adds' = s.adds
          /\ trace' = trace \o UseEvents(s.uses) \o walk_end(s.ok)
                         \o perform_end(s.ok).events
          /\ result' = perform_end(s.ok).result
          /\ failed' = ~s.ok
    /\ pc' = "done"
    /\ UNCHANGED <<zone, faulty, ixfrcr, file, spooled, domain_i, hdr, heap,
                   hvars>>

Next ==
    \/ ixfr_create_start
    \/ Reload
    \/ perform_open
    \/ walk_domain
    \/ walk_remaining

\* a caller of hash.c creates a table
call_hash_create ==
    /\ hash = NoHash
    /\ hfreed = <<>>
    /\ \E size \in 0..MaxHashSize : \E m \in BOOLEAN :
          hash' = hash_create(size, m)
    /\ UNCHANGED <<ivars, hcalls, hwalk, hwalk2, hfreed>>

\* a caller inserts a string, key and data freshly allocated
call_hash_insert ==
    /\ hash # NoHash
    /\ hfreed = <<>>
    /\ Len(hcalls) < MaxInserts
    /\ \E k \in 1..MaxKey : \E overwrite \in BOOLEAN : \E m \in BOOLEAN :
          \E r \in {hash_insert(hash, [p |-> Len(hcalls) + 1, s |-> k],
                                 Len(hcalls) + 1, overwrite, m)} :
             /\ hash' = r.hash
             /\ hcalls' = Append(hcalls,
                    [key |-> [p |-> Len(hcalls) + 1, s |-> k],
                     data |-> Len(hcalls) + 1, overwrite |-> overwrite,
                     ret |-> r.ret, nomem |-> r.nomem])
             /\ hwalk' = [hwalk EXCEPT !.mutated = TRUE]
             /\ hwalk2' = [hwalk2 EXCEPT !.mutated = TRUE]
    /\ UNCHANGED <<ivars, hfreed>>

\* the iteration after hash_first returned node
walk_first(node) ==
    [active |-> node # <<>>,
     visited |-> IF node # <<>> THEN <<node>> ELSE <<>>,
     done |-> node = <<>>, mutated |-> FALSE, interrupted |-> FALSE]

\* the iteration w after hash_next returned ret
walk_next(w, ret) ==
    [w EXCEPT !.active = ret # <<>>,
              !.visited = IF ret # <<>> THEN Append(@, ret) ELSE @,
              !.done = ret = <<>>]

\* the iteration w after a call made for the other iteration
walk_other(w) == [w EXCEPT !.interrupted = @ \/ w.active]

\* a caller starts an iteration
call_hash_first ==
    /\ hash # NoHash
    /\ hfreed = <<>>
    /\ hash' = hash_first(hash)
    /\ hwalk' = walk_first(hash_first(hash).node)
    /\ hwalk2' = walk_other(hwalk2)
    /\ UNCHANGED <<ivars, hcalls, hfreed>>

\* the caller goes on with the iteration, as long as it was given a node
call_hash_next ==
    /\ hwalk.active
    /\ Len(hwalk.visited) < MaxVisits
    /\ hfreed = <<>>
    /\ \E r \in {hash_next(hash)} :
          /\ hash' = r.hash
          /\ hwalk' = walk_next(hwalk, r.ret)
    /\ hwalk2' = walk_other(hwalk2)
    /\ UNCHANGED <<ivars, hcalls, hfreed>>

\* a second iteration over the table is started, before the first one, in
\* the middle of it or after it
call_hash_first_2 ==
    /\ hash # NoHash
    /\ hfreed = <<>>
    /\ hash' = hash_first(hash)
    /\ hwalk2' = walk_first(hash_first(hash).node)
    /\ hwalk' = walk_other(hwalk)
    /\ UNCHANGED <<ivars, hcalls, hfreed>>

\* the second iteration goes on
call_hash_next_2 ==
    /\ hwalk2.active
    /\ Len(hwalk2.visited) < MaxVisits
    /\ hfreed = <<>>
    /\ \E r \in {hash_next(hash)} :
          /\ hash' = r.hash
          /\ hwalk2' = walk_next(hwalk2, r.ret)
    /\ hwalk' = walk_other(hwalk)
    /\ UNCHANGED <<ivars, hcalls, hfreed>>

\* the caller fills the table before it walks it, as main does
call_hash_load ==
    /\ ~hwalk.active /\ ~hwalk.done
    /\ ~hwalk2.active /\ ~hwalk2.done
    /\ call_hash_insert

\* the caller destroys the table, as main does: the keys and the data are
\* freed with it.  The hash_t keeps what the freed memory held.
call_hash_destroy ==
    /\ hash # NoHash
    /\ hfreed = <<>>
    /\ hfreed' = hash_destroy(hash, TRUE, TRUE)
    /\ hwalk' = NoWalk
    /\ hwalk2' = NoWalk
    /\ UNCHANGED <<ivars, hash, hcalls>>

NextF == Next \/ Restart

NextH ==
    \/ call_hash_create
    \/ call_hash_insert
    \/ call_hash_first
    \/ call_hash_next
    \/ call_hash_destroy

\* the calls of two iterations over one table
NextR ==
    \/ call_hash_create
    \/ call_hash_load
    \/ call_hash_first
    \/ call_hash_next
    \/ call_hash_first_2
    \/ call_hash_next_2

NextM == ixfr_create_start \/ call_ixfr_create_free

Spec == Init /\ [][Next]_vars

SpecF == InitF /\ [][NextF]_vars

SpecM == InitM /\ [][NextM]_vars

SpecH == InitH /\ [][NextH]_vars

SpecR == InitH /\ [][NextR]_vars

\* ------------------------------------------------------------ the claims
\* An RR as the claims speak of it: (owner, type, class, ttl, uncompressed
\* rdata).
\* the uncompressed rdata of an rr: the names of its domain atoms and the
\* octets of its other atoms, without their length
WireRdata(rr) ==
    Flatten([i \in 1..Len(rr.rdatas) |->
                IF rr.type = 15 /\ i = 2 THEN rr.rdatas[i]
                ELSE Tail(rr.rdatas[i])])

RRTuple(dname, rr) == <<dname, rr.type, rr.klass, rr.ttl, WireRdata(rr)>>

\* the RRs of the zone at a domain, in the order of the chain of rrsets
DomainTuples(domain, z) ==
    Flatten([i \in 1..Len(InZone(domain, z)) |->
                [j \in 1..Len(InZone(domain, z)[i].rrs) |->
                    RRTuple(domain.dname, InZone(domain, z)[i].rrs[j])]])

\* the domains of the zone: the names at or below the apex
ZoneDomains(z) ==
    SelectSeq(z.domains, LAMBDA d : domain_is_subdomain(d, ZoneApex(z)))

\* the RRs of the zone, in the order of the walk
ZoneTuples(z) ==
    Flatten([i \in 1..Len(ZoneDomains(z)) |-> DomainTuples(ZoneDomains(z)[i], z)])

\* the names of the zone that hold an rrset of the zone
ZoneOwners(z) ==
    {z.domains[i].dname : i \in {j \in 1..Len(z.domains) :
        /\ domain_is_subdomain(z.domains[j], ZoneApex(z))
        /\ domain_count_rrsets(z.domains[j], z) > 0}}

OldTuples == IF spooled = <<>> THEN <<>> ELSE ZoneTuples(spooled)
NewTuples == ZoneTuples(zone)
OldOwners == IF spooled = <<>> THEN {} ELSE ZoneOwners(spooled)
NewOwners == ZoneOwners(zone)
AddTuples == [i \in 1..Len(adds) |-> RRTuple(adds[i].dname, adds[i])]

Success == pc = "done" /\ result = 1

\* C1: after a successful perform, (old minus deletes) plus adds equals new
\* as a multiset of RRs, every RR of old that is not in new is deleted and
\* every RR of new that is not in old is added.
C1_DiffTransformsOldIntoNew ==
    Success =>
        /\ (BagOfSeq(OldTuples) (-) BagOfSeq(dels)) (+) BagOfSeq(AddTuples)
              = BagOfSeq(NewTuples)
        /\ \A t \in Range(OldTuples) \ Range(NewTuples) : t \in Range(dels)
        /\ \A t \in Range(NewTuples) \ Range(OldTuples) : t \in Range(AddTuples)

\* C2: the diff is sound and minimal: every deletion is an RR of the old
\* zone, every addition is an RR of the new zone, no RR is both deleted and
\* added, and an RR of both zones is neither deleted nor added.
C2_DiffSoundMinimal ==
    /\ BagOfSeq(dels) \sqsubseteq BagOfSeq(OldTuples)
    /\ BagOfSeq(AddTuples) \sqsubseteq BagOfSeq(NewTuples)
    /\ Range(dels) \cap Range(AddTuples) = {}
    /\ \A t \in Range(OldTuples) \cap Range(NewTuples) :
          t \notin Range(dels) /\ t \notin Range(AddTuples)

\* a successful perform that deleted, added and kept an RR
C2_Witness ==
    /\ Success
    /\ dels # <<>>
    /\ adds # <<>>
    /\ Range(OldTuples) \cap Range(NewTuples) # {}

\* C3: after a successful perform, every RR of the zone at an owner of the new
\* zone that is not an owner on the spool has been added exactly once.
C3_NewOwnersAdded ==
    Success =>
        \A t \in Range(NewTuples) :
            t[1] \in NewOwners \ OldOwners => Occurrences(AddTuples, t) = 1

\* the old-only owners that come before d in canonical order
OldOnlyBefore(d) ==
    {o \in OldOwners \ NewOwners : dname_compare(o, d) < 0}

\* the owners of the new zone that the walk has passed
WalkedOwners ==
    {zone.domains[i].dname : i \in {j \in 1..Len(zone.domains) :
        /\ j < domain_i
        /\ zone.domains[j].dname \in NewOwners}}

\* C4: every RR of a spool owner that is not an owner of the new zone is
\* deleted exactly once: when the walk has passed a greater owner of the new
\* zone, and for every such owner once perform has returned with success.
C4_OldOwnersDeleted ==
    /\ pc = "walk" =>
          \A d \in WalkedOwners : \A t \in Range(OldTuples) :
              t[1] \in OldOnlyBefore(d) => Occurrences(dels, t) = 1
    /\ Success =>
          \A t \in Range(OldTuples) :
              t[1] \in OldOwners \ NewOwners => Occurrences(dels, t) = 1

\* a successful perform with an old-only owner before an owner of the new
\* zone and an old-only owner after the last owner of the new zone
C4_Witness ==
    /\ Success
    /\ \E d \in NewOwners : OldOnlyBefore(d) # {}
    /\ \E o \in OldOwners \ NewOwners :
          \A d \in NewOwners : dname_compare(d, o) < 0
    /\ NewOwners # {}

\* C5: when the new zone has the RRs of the spooled zone, perform succeeds
\* and emits no deletion and no addition.
C5_IdenticalZonesEmptyDiff ==
    (pc = "done" /\ BagOfSeq(OldTuples) = BagOfSeq(NewTuples)) =>
        result = 1 /\ dels = <<>> /\ adds = <<>>

\* perform has returned for two zones of the same two RRs
C5_Witness ==
    /\ pc = "done"
    /\ BagOfSeq(OldTuples) = BagOfSeq(NewTuples)
    /\ Len(OldTuples) = 2

\* what the read path gets from the spool file: the header, then every
\* owner with its rrsets through process_domain_del_RRs
ReadBack ==
    Bind(read_spool_header(St(NoFault), ixfrcr), LAMBDA h :
        Bind(process_spool_remaining(h), LAMBDA r :
            [ok |-> h.ok /\ r.ok, apex |-> h.hdr.dname,
             serial |-> h.hdr.serial, rrs |-> r.dels, eof |-> r.iter.eof,
             rest |-> Len(file) - r.pos]))

TtlChanged(o, n) ==
    /\ o[1] = n[1] /\ o[2] = n[2] /\ o[3] = n[3] /\ o[5] = n[5]
    /\ o[4] # n[4]

\* C7: when an RR of the old zone and an RR of the new zone differ in TTL
\* only, a successful perform deletes the old RR and adds the new RR.
C7_TtlChange ==
    Success =>
        \A o \in Range(OldTuples) : \A n \in Range(NewTuples) :
            TtlChanged(o, n) =>
                Occurrences(dels, o) = 1 /\ Occurrences(AddTuples, n) = 1

C7_Witness ==
    /\ Success
    /\ \E o \in Range(OldTuples) : \E n \in Range(NewTuples) : TtlChanged(o, n)

\* the header of the spool differs from the context
HeaderMismatch ==
    /\ hdr.read
    /\ \/ hdr.dname_len # ixfrcr.zone_name_len
       \/ hdr.dname # ixfrcr.zone_name
       \/ hdr.serial # ixfrcr.old_serial

\* C8: the store session is started and RRs are given to the store only
\* after the header of the spool was read and found equal to the context;
\* when the apex or the serial differs, perform returns failure.
C8_HeaderVerified ==
    /\ ("ixfr_store_start" \in Range(trace) \/ dels # <<>> \/ adds # <<>>)
          => hdr.read /\ ~HeaderMismatch
    /\ (pc = "done" /\ HeaderMismatch) =>
          /\ result = 0
          /\ "ixfr_store_start" \notin Range(trace)
          /\ dels = <<>> /\ adds = <<>>

\* perform has returned on a spool with the apex of another zone
C8_Witness ==
    /\ pc = "done"
    /\ hdr.read
    /\ hdr.dname # ixfrcr.zone_name
    /\ hdr.serial = ixfrcr.old_serial

\* C9: when an operation of perform fails, perform returns failure and the
\* store session, if started, has been freed; perform returns success only
\* when nothing failed.
C9_FailureDestroysStore ==
    pc = "done" =>
        /\ failed =>
              /\ result = 0
              /\ Occurrences(trace, "ixfr_store_free")
                    = Occurrences(trace, "ixfr_store_start")
        /\ result = 1 => ~failed

\* perform has failed after it gave an RR to the store
C9_Witness ==
    /\ pc = "done"
    /\ failed
    /\ "ixfr_store_start" \in Range(trace)
    /\ dels # <<>>

\* in the trace, the resource is acquired at most once, released only after
\* it was acquired, at most once, and used only between the two
UsedWhileLive(acq, rel, use) ==
    LET A == {i \in 1..Len(trace) : trace[i] = acq}
        R == {i \in 1..Len(trace) : trace[i] = rel}
        U == {i \in 1..Len(trace) : trace[i] \in use}
    IN  /\ Cardinality(A) <= 1
        /\ Cardinality(R) <= Cardinality(A)
        /\ \A r \in R : \E a \in A : a < r
        /\ \A u \in U : (\E a \in A : a < u) /\ (\A r \in R : u < r)

\* C10: on every exit of perform, the spool file, the region of the walk and
\* the store session, if acquired, have been released exactly once, and
\* none is used after its release.
C10_ResourcesReleasedOnce ==
    /\ UsedWhileLive("fopen", "fclose", {"use_spool"})
    /\ UsedWhileLive("region_create", "region_destroy",
                     {"use_region", "region_free_all"})
    /\ UsedWhileLive("ixfr_store_start", "ixfr_store_free", {"use_store"})
    /\ pc = "done" =>
          /\ Occurrences(trace, "fclose") = Occurrences(trace, "fopen")
          /\ Occurrences(trace, "region_destroy")
                = Occurrences(trace, "region_create")
          /\ Occurrences(trace, "ixfr_store_free")
                = Occurrences(trace, "ixfr_store_start")

\* perform has failed in the walk, after it used the store
C10_Witness ==
    /\ pc = "done"
    /\ failed
    /\ "region_create" \in Range(trace)
    /\ "use_store" \in Range(trace)

\* the RRs of the zone z at the owner d of the type tp
RRsOf(z, d, tp) ==
    IF z = <<>> THEN {}
    ELSE {t \in Range(ZoneTuples(z)) : t[1] = d /\ t[2] = tp}

\* the owners of both zones that the walk has handled
DiffedOwners ==
    {d \in OldOwners \cap NewOwners : Success \/ (pc = "walk" /\ d \in WalkedOwners)}

RRTypes == {1, 15}

\* C19: in an rrset of both the spool and the new zone, once the walk has
\* handled its owner, every spool RR without an RR of the same ttl and rdata
\* in the new rrset is deleted exactly once, every RR of the new rrset without
\* such an RR on the spool is added exactly once, and an RR of both is
\* neither deleted nor added.
C19_DiffWithinRRset ==
    \A d \in DiffedOwners : \A tp \in RRTypes :
        (RRsOf(spooled, d, tp) # {} /\ RRsOf(zone, d, tp) # {}) =>
            /\ \A o \in RRsOf(spooled, d, tp) :
                  Occurrences(dels, o)
                     = (IF o \in RRsOf(zone, d, tp) THEN 0 ELSE 1)
            /\ \A o \in RRsOf(spooled, d, tp) :
                  o \notin Range(AddTuples) \/ o \in RRsOf(zone, d, tp)
            /\ \A n \in RRsOf(zone, d, tp) :
                  Occurrences(AddTuples, n)
                     = (IF n \in RRsOf(spooled, d, tp) THEN 0 ELSE 1)
            /\ \A n \in RRsOf(zone, d, tp) :
                  n \in RRsOf(spooled, d, tp) => n \notin Range(dels)

\* a successful perform over an rrset with an RR of both sides, an RR of the
\* spool only and an RR of the new zone only
C19_Witness ==
    /\ Success
    /\ \E d \in OldOwners \cap NewOwners : \E tp \in RRTypes :
          /\ RRsOf(spooled, d, tp) \cap RRsOf(zone, d, tp) # {}
          /\ RRsOf(spooled, d, tp) \ RRsOf(zone, d, tp) # {}
          /\ RRsOf(zone, d, tp) \ RRsOf(spooled, d, tp) # {}
          /\ dels # <<>> /\ adds # <<>>

\* C20: at an owner of both the spool and the new zone, once the walk has
\* handled it, a type of the spool without an rrset in the new zone has each
\* of its spooled RRs deleted exactly once, a type of the new zone that is
\* not on the spool has each of its RRs added exactly once and none deleted,
\* and a type of both sides has no RR added twice and no RR of the spool
\* added.
C20_TypeDiffAtOwner ==
    \A d \in DiffedOwners : \A tp \in RRTypes :
        /\ RRsOf(zone, d, tp) = {} =>
              /\ \A o \in RRsOf(spooled, d, tp) : Occurrences(dels, o) = 1
              /\ \A t \in Range(AddTuples) : ~(t[1] = d /\ t[2] = tp)
        /\ RRsOf(spooled, d, tp) = {} =>
              /\ \A n \in RRsOf(zone, d, tp) : Occurrences(AddTuples, n) = 1
              /\ \A t \in Range(dels) : ~(t[1] = d /\ t[2] = tp)
        /\ (RRsOf(spooled, d, tp) # {} /\ RRsOf(zone, d, tp) # {}) =>
              \A n \in RRsOf(zone, d, tp) :
                  /\ Occurrences(AddTuples, n) <= 1
                  /\ n \in RRsOf(spooled, d, tp) => n \notin Range(AddTuples)

\* a successful perform over an owner with a type of the spool only and a
\* type of the new zone only, and over an owner with a type of both sides
C20_Witness ==
    /\ Success
    /\ \E d \in OldOwners \cap NewOwners : \E tp, tq \in RRTypes :
          /\ RRsOf(zone, d, tp) = {}
          /\ RRsOf(spooled, d, tp) # {}
          /\ \E t \in Range(dels) : t[1] = d /\ t[2] = tp
          /\ RRsOf(spooled, d, tq) = {}
          /\ RRsOf(zone, d, tq) # {}
          /\ \E t \in Range(AddTuples) : t[1] = d /\ t[2] = tq
    /\ \E d \in OldOwners \cap NewOwners : \E tp \in RRTypes :
          RRsOf(spooled, d, tp) \cap RRsOf(zone, d, tp) # {}

\* the number of octets that spool_domains writes from domain i of the zone
SpoolSuffixLen(z, i) ==
    Len(spool_domains_from([bytes |-> <<>>, ok |-> TRUE, fuel |-> NoFault],
                           z, i).bytes)

\* the indexes of the domains that spool_domains writes
OwnerIndexes(z) ==
    SelectSeq([i \in 1..Len(z.domains) |-> i],
              LAMBDA i : /\ domain_is_subdomain(z.domains[i], ZoneApex(z))
                         /\ domain_count_rrsets(z.domains[i], z) > 0)

\* the offsets in the spool file of the owner names, in order, and of the
\* zero length name that ends the file
NameOffsets(z) ==
    [k \in 1..Len(OwnerIndexes(z)) |->
        Len(file) - SpoolSuffixLen(z, OwnerIndexes(z)[k])]
    \o <<Len(file) - 2>>

\* C16: the iterator reads a name only when none was read yet or the name
\* it holds is processed, and never after eof; the k-th name it reads starts
\* where the k-th owner of the spool starts (the rrset count and the rrset
\* blocks of the owner before were consumed, once); while a name is held
\* unprocessed nothing behind it has been read, and once it is processed the
\* file is at the next name.
C16_IteratorNeverReadsPast ==
    pc \in {"walk", "done"} =>
        /\ Len(name_reads) <= Len(NameOffsets(spooled))
        /\ \A k \in 1..Len(name_reads) :
              /\ ~name_reads[k].eof
              /\ ~name_reads[k].read_first \/ name_reads[k].is_processed
              /\ name_reads[k].pos = NameOffsets(spooled)[k]
        /\ (iter.read_first /\ ~iter.eof /\ ~iter.is_processed) =>
              spool_pos = NameOffsets(spooled)[Len(name_reads)] + 2
                             + iter.dname_len
        /\ (iter.read_first /\ ~iter.eof /\ iter.is_processed) =>
              spool_pos = NameOffsets(spooled)[Len(name_reads) + 1]

\* a successful perform over a spool of two owners, the first of them held
\* by the iterator while an owner of the new zone before it was added
C16_Witness ==
    /\ Success
    /\ Len(name_reads) = 3
    /\ \E d \in NewOwners \ OldOwners : \A o \in OldOwners :
          dname_compare(d, o) < 0

HeapBlocks == {"ixfrcr", "zone_name", "file_name"}

\* C11: ixfr_create_free is idempotent: a call on a null pointer or on a
\* context that was freed before changes nothing, so that no block is freed
\* twice and no freed memory decides what is freed.
C11_FreeIdempotent ==
    /\ \A b \in HeapBlocks : heap[b] # "freed_twice"
    /\ ~heap.wild

\* what a reader gets that reads the header and then, for every owner, as
\* many rrset blocks as the rrset count says and as many RRs as the rr count
\* of the block says
SpoolWalk == process_spool_remaining(read_spool_header(St(NoFault), ixfrcr))

\* C18: in the file that ixfr_create_start wrote, the rrset count of every
\* owner is the number of rrset blocks that follow and the rr count of every
\* block is the number of RRs that follow: the reader that goes by the
\* counts finds every owner name where it was written, reads the RRs that
\* were written and ends at the end of the file, after the end sentinel.
C18_CountsMatchBlocks ==
    pc = "started" =>
        /\ SpoolWalk.ok
        /\ SpoolWalk.iter.eof
        /\ SpoolWalk.pos = Len(file)
        /\ [k \in 1..Len(SpoolWalk.reads) |-> SpoolWalk.reads[k].pos]
              = NameOffsets(spooled)
        /\ Len(SpoolWalk.dels) = Len(ZoneTuples(spooled))

\* a pointer to the string k, to search with
KeyOf(k) == [p |-> 0, s |-> k]

\* the key is in the table: a node of its bucket holds a key that compares
\* equal
Present(h, key) ==
    \E j \in 1..Len(h.table[BucketOf(h, key)]) :
        /\ h.table[BucketOf(h, key)][j].key # NullKey
        /\ cmpf(key, h.table[BucketOf(h, key)][j].key) = 0

\* the calls of hash_insert made had pairwise different keys and mallocf
\* never failed
DistinctKeysInserted ==
    /\ \A a, b \in 1..Len(hcalls) :
          a # b => cmpf(hcalls[a].key, hcalls[b].key) # 0
    /\ \A a \in 1..Len(hcalls) : ~hcalls[a].nomem

\* C12: after calls of hash_insert with pairwise different keys and without
\* a failure of mallocf, on a table of any size, hash_search of every key
\* returns the data inserted with it and count is the number of keys.
C12_DistinctKeysFound ==
    (hash # NoHash /\ DistinctKeysInserted) =>
        /\ \A a \in 1..Len(hcalls) :
              hash_search(hash, hcalls[a].key) = hcalls[a].data
        /\ hash.count = Len(hcalls)

\* three different keys in a table of one bucket
C12_Witness ==
    /\ hash # NoHash
    /\ hash.size = 1
    /\ Len(hcalls) = 3
    /\ DistinctKeysInserted
    /\ Len(hash.table[1]) = 3

\* the step is a call of hash_insert, with this overwrite, of a key that is
\* in the table
InsertOfPresentKey(overwrite) ==
    /\ hash # NoHash
    /\ hcalls' # hcalls
    /\ hcalls'[Len(hcalls')].overwrite = overwrite
    /\ Present(hash, hcalls'[Len(hcalls')].key)

\* C13: hash_insert without overwrite of a key that is in the table returns
\* null and leaves hash_search of the key, count and collisions as they
\* were.
C13_NoOverwriteKeepsTable ==
    [][InsertOfPresentKey(FALSE) =>
          /\ hcalls'[Len(hcalls')].ret = <<>>
          /\ hash_search(hash', hcalls'[Len(hcalls')].key)
                = hash_search(hash, hcalls'[Len(hcalls')].key)
          /\ hash'.count = hash.count
          /\ hash'.collisions = hash.collisions]_vars

\* C14: hash_insert with overwrite of a key that is in the table replaces
\* the data in place: hash_search of the key returns the new data, and count
\* and collisions are as they were.
C14_OverwriteReplacesInPlace ==
    [][InsertOfPresentKey(TRUE) =>
          /\ hash_search(hash', hcalls'[Len(hcalls')].key)
                = hcalls'[Len(hcalls')].data
          /\ hash'.count = hash.count
          /\ hash'.collisions = hash.collisions]_vars

\* the occupied nodes of the table, by bucket and then along the chain
OccupiedNodes(h) ==
    Flatten([b \in 1..h.size |->
                SelectSeq([k \in 1..Len(h.table[b]) |-> <<b - 1, k>>],
                          LAMBDA n : h.table[b][n[2]].key # NullKey)])

\* C15: an iteration with hash_first and hash_next that no insert interrupts
\* visits the occupied nodes in the order of the buckets and of the chains,
\* each once; when hash_next has returned null it has visited them all, as
\* many as count; on an empty table hash_first returns null.
C15_IterationVisitsAll ==
    (hash # NoHash /\ ~hwalk.mutated /\ (hwalk.active \/ hwalk.done)) =>
        /\ hwalk.visited
              = SubSeq(OccupiedNodes(hash), 1, Len(hwalk.visited))
        /\ hwalk.done =>
              /\ hwalk.visited = OccupiedNodes(hash)
              /\ Len(hwalk.visited) = hash.count
        /\ hash.count = 0 => hwalk.done /\ hwalk.visited = <<>>
        /\ hwalk.active => hwalk.visited # <<>>

\* a finished iteration over a table of two buckets, one of them with a
\* chain
C15_Witness ==
    /\ hash # NoHash
    /\ hash.size = 2
    /\ hwalk.done
    /\ ~hwalk.mutated
    /\ Len(hwalk.visited) = 3
    /\ hash.table[1][1].key # NullKey
    /\ Len(hash.table[2]) = 2

\* C17: hash_insert with overwrite of a key that is in the table changes
\* the node of that key only: hash_search of every other key returns what it
\* returned before.
C17_OverwriteFrame ==
    [][InsertOfPresentKey(TRUE) =>
          \A k \in 1..MaxKey :
              k # hcalls'[Len(hcalls')].key.s =>
                  hash_search(hash', KeyOf(k)) = hash_search(hash, KeyOf(k))]_vars

\* C25: when ixfr_create_start has returned, the spool file that it opened is
\* closed, and when it failed it has returned null with every block of the
\* context freed.
C25_StartClosesSpool ==
    pc \in {"null", "started"} =>
        /\ heap.out \in {"none", "closed"}
        /\ pc = "null" =>
              /\ ixfrcr = <<>>
              /\ \A b \in HeapBlocks : heap[b] \in {"none", "freed"}

\* C21: after any calls of hash_insert, a bucket whose head has a null key
\* has no chain, no chain node has a null key, and every key of bucket i
\* hashes to i modulo the size of the table.
C21_TableWellFormed ==
    hash # NoHash =>
        \A b \in 1..hash.size :
            /\ hash.table[b][1].key = NullKey => Len(hash.table[b]) = 1
            /\ \A k \in 2..Len(hash.table[b]) : hash.table[b][k].key # NullKey
            /\ \A k \in 1..Len(hash.table[b]) :
                  hash.table[b][k].key # NullKey =>
                      hashf(hash.table[b][k].key) % hash.size = b - 1

\* a table of two buckets after an insert that found its key in the table
\* and an insert for which mallocf failed, with an empty bucket and a chain
C21_Witness ==
    /\ hash # NoHash
    /\ hash.size = 2
    /\ Len(hcalls) = 3
    /\ \E a \in 1..Len(hcalls) : hcalls[a].nomem
    /\ \E a, c \in 1..Len(hcalls) :
          a < c /\ cmpf(hcalls[a].key, hcalls[c].key) = 0
    /\ hash.table[1][1].key = NullKey
    /\ Len(hash.table[2]) = 2

\* the step is a call of hash_insert that had to extend a chain and for which
\* mallocf failed
InsertWithoutMemory ==
    /\ hash # NoHash
    /\ hcalls' # hcalls
    /\ hcalls'[Len(hcalls')].nomem

\* C22: when hash_insert has to extend a chain and mallocf fails, it returns
\* null and the table is as before: count, collisions, every chain and
\* every key and data in it.
C22_NoMemoryKeepsTable ==
    [][InsertWithoutMemory =>
          /\ hcalls'[Len(hcalls')].ret = <<>>
          /\ hash'.table = hash.table
          /\ hash'.count = hash.count
          /\ hash'.collisions = hash.collisions]_vars

\* C24: when every hash_insert was given a freshly allocated key and a
\* freshly allocated value, hash_destroy with both flags set gives no pointer
\* to free twice, and frees every chain link and the table exactly once.
C24_DestroyFreesOnce ==
    hfreed # <<>> =>
        /\ \A x \in Range(hfreed) : Occurrences(hfreed, x) = 1
        /\ \A b \in 1..hash.size : \A k \in 2..Len(hash.table[b]) :
               Occurrences(hfreed, <<"link", b - 1, k>>) = 1
        /\ Occurrences(hfreed, <<"hash", 0, 0>>) = 1

\* the iteration w was given every occupied node once, in order
Serialized(w) == w.done /\ ~w.interrupted /\ ~w.mutated

\* C23: the two iterations share the one cursor of the table.  The node the
\* table holds in _node is the node last given to whichever iteration called
\* last, so an iteration that the other has not interrupted goes on from its
\* own last node, and one that no call of the other interrupts visits every
\* occupied node exactly once.  An interrupted iteration goes on from the
\* other's node (the state of C23_Witness: it repeats a node and skips one).
C23_IterationsShareCursor ==
    hash # NoHash =>
        /\ \A w \in {hwalk, hwalk2} :
              /\ (w.active /\ ~w.interrupted) =>
                    hash.node = w.visited[Len(w.visited)]
              /\ Serialized(w) => w.visited = OccupiedNodes(hash)
        /\ (hwalk.active /\ hwalk2.active) =>
              /\ hwalk.interrupted \/ hwalk2.interrupted
              /\ hash.node \in {hwalk.visited[Len(hwalk.visited)],
                                hwalk2.visited[Len(hwalk2.visited)]}

\* the first iteration has come to its end after calls of the second in
\* between: it was given one node twice and another one never, while the
\* second, started later and not interrupted after its last call, is under
\* way on the same cursor
C23_Witness ==
    /\ hash # NoHash
    /\ hwalk.done
    /\ hwalk.interrupted
    /\ ~hwalk.mutated
    /\ hwalk2.visited # <<>>
    /\ \E n \in Range(OccupiedNodes(hash)) : Occurrences(hwalk.visited, n) = 0
    /\ \E n \in Range(OccupiedNodes(hash)) : Occurrences(hwalk.visited, n) = 2

====
